---- MODULE Spec2Model ----
(***************************************************************************)
(* Model of dopplerr/db.py: the DopplerrDb singleton over a peewee         *)
(* SqliteQueueDatabase.  Each SQL statement is one atomic step (a SELECT   *)
(* runs on the caller's connection, an INSERT or UPDATE is one item of the *)
(* writer queue); the statements of one operation are separate steps, as   *)
(* every operation runs with_transaction=False.                            *)
(***************************************************************************)
EXTENDS Integers, Sequences, FiniteSets, TLC

\* ---------------------------------------------------------------- bounds
MaxMedias == 2
MaxSubtitles == 2
MaxEvents == 3
MaxTime == 2
MaxLimit == 2
TicksPerSecond == 2

\* ---------------------------------------------------------------- inputs
NULL == "NULL"
AllThreads == {"t1", "t2"}
Paths == {"a.db", "b.db"}
TvDbIds == {100}
Seasons == {1}
Episodes == {1, 2}
UIDs == [tv_db_id : TvDbIds, season_number : Seasons, episode_number : Episodes]
Uid(e) == [tv_db_id |-> 100, season_number |-> 1, episode_number |-> e]
\* the empty filename stands for "" and for None
Filenames == {"", "ep1.mkv", "ep2.mkv", "ep2.avi"}
\* the episodes and files update_series_media is called with
MediaKeys ==
    { [uid |-> Uid(2), media_filename |-> "ep2.mkv"],
      [uid |-> Uid(2), media_filename |-> "ep2.avi"],
      [uid |-> Uid(1), media_filename |-> "ep1.mkv"],
      [uid |-> Uid(2), media_filename |-> ""] }
Descs ==
    { [series_title |-> "A", episode_title |-> "pilot", quality |-> "720p",
       video_languages |-> "en", dirty |-> TRUE],
      [series_title |-> "B", episode_title |-> "finale", quality |-> "1080p",
       video_languages |-> "fr", dirty |-> FALSE] }
LangSeqs == { <<>>, <<"fr", "fr">>, <<"en", "fr">> }
Notices ==
    { [type |-> "grab", message |-> "m1"],
      [type |-> "download", message |-> "m2"] }

VARIABLES
    sqlite_db_path,   \* DopplerrDb.__sqlite_db_path ("None" before init)
    database,         \* DopplerrDb.__database: the handle and the path it was opened on
    files,            \* the database files that exist on disk
    tables,           \* whether create_tables has run on the handle's file
    events,           \* table Events, in rowid order
    medias,           \* table SeriesMedias, in rowid order (id = index)
    subtitles,        \* table SeriesSubtitles, in rowid order
    now,              \* the reading of datetime.datetime.now
    threads,          \* the caller threads of the process
    pc,               \* per thread: the statement its operation is at
    args,             \* per thread: the arguments of its operation
    local,            \* per thread: the operation's local variables
    result,           \* per thread: what its last operation returned or raised
    fetched           \* history: per episode, the languages of the completed
                      \* update_fetched_series_subtitles calls

handle == <<sqlite_db_path, database, files, tables>>
store == <<events, medias, subtitles>>
frames == <<pc, args, local, result>>
vars == <<sqlite_db_path, database, files, tables, events, medias, subtitles,
          now, threads, pc, args, local, result, fetched>>

\* ---------------------------------------------------------------- helpers
NoArgs == [op |-> "none"]
NoLocal == [i |-> 0]
Pending == [status |-> "pending"]
Ok(v) == [status |-> "ok", value |-> v]
Raised(e) == [status |-> e]

Min(S) == CHOOSE k \in S : \A j \in S : k <= j

\* datetime.strftime('%Y-%m-%dT%H:%M:%S'): the sub-second part is dropped.
strftime(ts) == ts \div TicksPerSecond

\* lexicographic rank of the language codes and of the titles; SQLite sorts
\* NULL below every string.
LangRank(l) == IF l = "en" THEN 1 ELSE 2
TitleRank(s) == IF s = NULL THEN 0 ELSE IF s = "A" THEN 1 ELSE 2

RECURSIVE InsertSorted(_, _)
InsertSorted(l, s) ==
    IF s = <<>> THEN <<l>>
    ELSE IF LangRank(l) <= LangRank(Head(s)) THEN <<l>> \o s
    ELSE <<Head(s)>> \o InsertSorted(l, Tail(s))

\* mutant: the languages in the order of the rows
unsorted(s) == s

\* sorted(...) of a sequence of language codes
RECURSIVE sorted(_)
sorted(s) == IF s = <<>> THEN <<>> ELSE InsertSorted(Head(s), sorted(Tail(s)))

\* ---------------------------------------------------------------- handle
NoDatabase == [open |-> FALSE, path |-> "None"]

\* mutant: a handle is built at every access
DatabaseRebuilt == [open |-> TRUE, path |-> sqlite_db_path]

\* property DopplerrDb.database: the handle is built on first access, on the
\* path recorded then, and returned unchanged afterwards.
Database ==
    IF ~database.open THEN [open |-> TRUE, path |-> sqlite_db_path] ELSE database

\* the file SQLite creates when the handle's first statement runs
FilesAfterAccess ==
    IF Database.path = "None" THEN files ELSE files \cup {Database.path}

\* a statement succeeds when the handle has a path and the tables exist
Usable == Database.path # "None" /\ tables

Access == /\ database' = Database
          /\ files' = FilesAfterAccess
          /\ UNCHANGED <<sqlite_db_path, tables>>

Idle(t) == t \in threads /\ pc[t] = "idle"

\* an operation ends: back to idle with its outcome
Return(t, r) ==
    /\ pc' = [pc EXCEPT ![t] = "idle"]
    /\ result' = [result EXCEPT ![t] = r]

\* an operation raises OperationalError on an unusable handle
Unusable(t, a) ==
    /\ ~Usable
    /\ Access
    /\ Return(t, Raised("OperationalError"))
    /\ args' = [args EXCEPT ![t] = a]
    /\ UNCHANGED <<local, store, now, threads, fetched>>

\* ---------------------------------------------------------------- SeriesMedias
\* the ids SeriesMedias.get(tv_db_id=, season_number=, episode_number=,
\* media_filename=) selects
KeyIds(a) ==
    { k \in 1..Len(medias) :
        /\ medias[k].tv_db_id = a.tv_db_id
        /\ medias[k].season_number = a.season_number
        /\ medias[k].episode_number = a.episode_number
        /\ medias[k].media_filename = a.media_filename }

\* the ids the query of update_fetched_series_subtitles selects
UidIds(uid) ==
    { k \in 1..Len(medias) :
        /\ medias[k].tv_db_id = uid.tv_db_id
        /\ medias[k].season_number = uid.season_number
        /\ medias[k].episode_number = uid.episode_number }

\* the first row of a selection, in rowid order; 0 when it is empty
First(ids) == IF ids = {} THEN 0 ELSE Min(ids)

\* SeriesMedias(**kwargs): the key fields given, the defaults of the model
NewMedia(a) ==
    [ tv_db_id |-> a.tv_db_id,
      season_number |-> a.season_number,
      episode_number |-> a.episode_number,
      added_timestamp |-> now,
      series_title |-> NULL,
      episode_title |-> NULL,
      quality |-> NULL,
      video_languages |-> NULL,
      dirty |-> TRUE,
      media_filename |-> a.media_filename ]

\* mutant: quality and dirty are not assigned
OverwrittenInPart(row, a) ==
    [ row EXCEPT !.series_title = a.series_title,
                 !.episode_title = a.episode_title,
                 !.video_languages = a.video_languages,
                 !.media_filename = a.media_filename ]

\* lines 114-119: the assignments before media.save()
Overwritten(row, a) ==
    [ row EXCEPT !.series_title = a.series_title,
                 !.episode_title = a.episode_title,
                 !.quality = a.quality,
                 !.video_languages = a.video_languages,
                 !.dirty = a.dirty,
                 !.media_filename = a.media_filename ]

\* mutant: no assert
FilenameUnchecked(a) == TRUE

\* the assert of line 106
FilenameGiven(a) == a.media_filename # ""

Creating == { t \in threads : pc[t] = "usm_create" }

\* update_series_media, up to the SELECT of _get_or_create
update_series_media(t, uid, f, d) ==
    /\ Idle(t)
    /\  LET a == [ op |-> "update_series_media",
                   series_title |-> d.series_title,
                   tv_db_id |-> uid.tv_db_id,
                   season_number |-> uid.season_number,
                   episode_number |-> uid.episode_number,
                   episode_title |-> d.episode_title,
                   quality |-> d.quality,
                   video_languages |-> d.video_languages,
                   media_filename |-> f,
                   dirty |-> d.dirty ]
            k == First(KeyIds(a))
        IN  IF ~FilenameGiven(a)
            THEN /\ Return(t, Raised("AssertionError"))
                 /\ args' = [args EXCEPT ![t] = a]
                 /\ UNCHANGED <<handle, store, now, threads, fetched, local>>
            ELSE IF ~Usable
            THEN Unusable(t, a)
            ELSE /\ k = 0 => Len(medias) + Cardinality(Creating) < MaxMedias
                 /\ Access
                 /\ args' = [args EXCEPT ![t] = a]
                 /\ pc' = [pc EXCEPT ![t] = IF k = 0 THEN "usm_create" ELSE "usm_save"]
                 /\ local' = [local EXCEPT ![t] =
                        IF k = 0 THEN NoLocal ELSE [i |-> k, row |-> medias[k]]]
                 /\ result' = [result EXCEPT ![t] = Pending]
                 /\ UNCHANGED <<store, now, threads, fetched>>

\* _get_or_create, DoesNotExist branch: model.create(**kwargs)
usm_create(t) ==
    /\ t \in threads /\ pc[t] = "usm_create"
    /\ medias' = Append(medias, NewMedia(args[t]))
    /\ local' = [local EXCEPT ![t] = [i |-> Len(medias) + 1, row |-> NewMedia(args[t])]]
    /\ pc' = [pc EXCEPT ![t] = "usm_save"]
    /\ UNCHANGED <<handle, events, subtitles, now, threads, fetched, args, result>>

\* media.save(): UPDATE of every column of the instance, by primary key
usm_save(t) ==
    /\ t \in threads /\ pc[t] = "usm_save"
    /\ medias' = [medias EXCEPT ![local[t].i] = Overwritten(local[t].row, args[t])]
    /\ Return(t, Ok(NULL))
    /\ local' = [local EXCEPT ![t] = NoLocal]
    /\ UNCHANGED <<handle, events, subtitles, now, threads, fetched, args>>

\* ---------------------------------------------------------------- SeriesSubtitles
RECURSIVE SumOver(_, _)
SumOver(f, S) ==
    IF S = {} THEN 0
    ELSE LET x == CHOOSE y \in S : TRUE IN f[x] + SumOver(f, S \ {x})

\* the value of the subquery `media` inside a statement: SQLite takes the first
\* row of a scalar subquery, NULL (0) when it selects nothing
ScalarMedia(uid) == First(UidIds(uid))

\* SeriesSubtitles.get(series_media=media, language=lang) finds a row
SubtitleFound(uid, lang) ==
    \E k \in 1..Len(subtitles) :
        /\ ScalarMedia(uid) # 0
        /\ subtitles[k].series_media = ScalarMedia(uid)
        /\ subtitles[k].language = lang

\* mutant: series_media declared null=True
ParentNullable(uid) == FALSE

\* series_media is declared NOT NULL: an INSERT of NULL raises IntegrityError
ParentMissing(uid) == ScalarMedia(uid) = 0

\* SeriesSubtitles(series_media=media, language=lang)
NewSubtitle(uid, lang) ==
    [ added_timestamp |-> now, series_media |-> ScalarMedia(uid), language |-> lang ]

\* the rows the languages from position i on may still add
Missing(uid, langs, i) ==
    Cardinality({ langs[j] : j \in { n \in i..Len(langs) : ~SubtitleFound(uid, langs[n]) } })

\* the rows the update_fetched_series_subtitles calls in flight may still add
Remaining ==
    [ t \in AllThreads |->
        IF t \in threads /\ pc[t] \in {"ufs_get", "ufs_create"}
        THEN Missing(args[t].series_episode_uid, args[t].subtitles_languages, local[t].i)
        ELSE 0 ]

\* where the loop over subtitles_languages goes after language i
AfterLanguage(a, i) ==
    IF i < Len(a.subtitles_languages) THEN "ufs_get" ELSE "ufs_select"

\* update_fetched_series_subtitles, up to the loop: `media` is a lazy query
update_fetched_series_subtitles(t, uid, langs, dirty) ==
    /\ Idle(t)
    /\  LET a == [ op |-> "update_fetched_series_subtitles",
                   series_episode_uid |-> uid,
                   subtitles_languages |-> langs,
                   dirty |-> dirty ]
        IN  IF ~Usable
            THEN Unusable(t, a)
            ELSE /\ Len(subtitles) + SumOver(Remaining, threads) + Missing(uid, langs, 1)
                        <= MaxSubtitles
                 /\ Access
                 /\ args' = [args EXCEPT ![t] = a]
                 /\ pc' = [pc EXCEPT ![t] = AfterLanguage(a, 0)]
                 /\ local' = [local EXCEPT ![t] = [i |-> 1, rows |-> <<>>]]
                 /\ result' = [result EXCEPT ![t] = Pending]
                 /\ UNCHANGED <<store, now, threads, fetched>>

\* _get_or_create(SeriesSubtitles, ...): the SELECT
ufs_get(t) ==
    /\ t \in threads /\ pc[t] = "ufs_get"
    /\ LET a == args[t]
           i == local[t].i
       IN  IF SubtitleFound(a.series_episode_uid, a.subtitles_languages[i])
           THEN /\ pc' = [pc EXCEPT ![t] = AfterLanguage(a, i)]
                /\ local' = [local EXCEPT ![t].i = i + 1]
           ELSE /\ pc' = [pc EXCEPT ![t] = "ufs_create"]
                /\ UNCHANGED local
    /\ UNCHANGED <<handle, store, now, threads, fetched, args, result>>

\* _get_or_create(SeriesSubtitles, ...): the INSERT; series_media is NOT NULL
ufs_create(t) ==
    /\ t \in threads /\ pc[t] = "ufs_create"
    /\ LET a == args[t]
           i == local[t].i
       IN  IF ParentMissing(a.series_episode_uid)
           THEN /\ Return(t, Raised("IntegrityError"))
                /\ local' = [local EXCEPT ![t] = NoLocal]
                /\ UNCHANGED subtitles
           ELSE /\ subtitles' = Append(subtitles,
                        NewSubtitle(a.series_episode_uid, a.subtitles_languages[i]))
                /\ pc' = [pc EXCEPT ![t] = AfterLanguage(a, i)]
                /\ local' = [local EXCEPT ![t].i = i + 1]
                /\ UNCHANGED result
    /\ UNCHANGED <<handle, events, medias, now, threads, fetched, args>>

\* the history once the call with arguments a has completed
Completed(a) ==
    [ fetched EXCEPT ![a.series_episode_uid] =
        @ \cup { a.subtitles_languages[i] : i \in 1..Len(a.subtitles_languages) } ]

RECURSIVE RowsOf(_)
\* the rows of a selection, as instances, in rowid order
RowsOf(ids) ==
    IF ids = {} THEN <<>>
    ELSE <<[i |-> Min(ids), row |-> medias[Min(ids)]]>> \o RowsOf(ids \ {Min(ids)})

\* `for m in media`: the query runs and its rows are read
ufs_select(t) ==
    /\ t \in threads /\ pc[t] = "ufs_select"
    /\ LET rows == RowsOf(UidIds(args[t].series_episode_uid))
       IN  IF rows = <<>>
           THEN /\ Return(t, Ok(NULL))
                /\ local' = [local EXCEPT ![t] = NoLocal]
                /\ fetched' = Completed(args[t])
           ELSE /\ pc' = [pc EXCEPT ![t] = "ufs_save"]
                /\ local' = [local EXCEPT ![t].rows = rows]
                /\ UNCHANGED <<result, fetched>>
    /\ UNCHANGED <<handle, store, now, threads, args>>

\* lines 144-145: the row as update_fetched_series_subtitles saves it
Marked(row, dirty) == [row EXCEPT !.dirty = dirty]

\* m.dirty = dirty; m.save(): UPDATE of every column of the instance read
ufs_save(t) ==
    /\ t \in threads /\ pc[t] = "ufs_save"
    /\ LET m == Head(local[t].rows)
           rest == Tail(local[t].rows)
       IN  /\ medias' = [medias EXCEPT ![m.i] = Marked(m.row, args[t].dirty)]
           /\ IF rest = <<>>
              THEN /\ Return(t, Ok(NULL))
                   /\ local' = [local EXCEPT ![t] = NoLocal]
                   /\ fetched' = Completed(args[t])
              ELSE /\ local' = [local EXCEPT ![t].rows = rest]
                   /\ UNCHANGED <<pc, result, fetched>>
    /\ UNCHANGED <<handle, events, subtitles, now, threads, args>>

\* ---------------------------------------------------------------- queries
MediasLimit == 100

\* the ids of SeriesMedias ordered by series_title descending (ties and NULLs
\* in rowid order, NULLs last)
RECURSIVE OrderedByTitle(_)
OrderedByTitle(ids) ==
    IF ids = {} THEN <<>>
    ELSE LET top == { k \in ids : \A j \in ids :
                        TitleRank(medias[j].series_title)
                            <= TitleRank(medias[k].series_title) }
         IN  <<Min(top)>> \o OrderedByTitle(ids \ {Min(top)})

\* .limit(n)
Limited(s, n) == SubSeq(s, 1, IF Len(s) < n THEN Len(s) ELSE n)

\* (s.language for s in med.subtitles): the back-reference query, in rowid order
RECURSIVE LanguagesOf(_, _)
LanguagesOf(id, n) ==
    IF n = 0 THEN <<>>
    ELSE LanguagesOf(id, n - 1) \o
         (IF subtitles[n].series_media = id THEN <<subtitles[n].language>> ELSE <<>>)

\* one record of get_medias_series
MediaRecord(med) ==
    [ added_timestamp |-> strftime(med.row.added_timestamp),
      series_title |-> med.row.series_title,
      season_number |-> med.row.season_number,
      episode_number |-> med.row.episode_number,
      episode_title |-> med.row.episode_title,
      quality |-> med.row.quality,
      video_languages |-> med.row.video_languages,
      subtitle_languages |-> sorted(LanguagesOf(med.i, Len(subtitles))),
      dirty |-> med.row.dirty ]

\* get_medias_series: the SELECT of the medias
get_medias_series(t) ==
    /\ Idle(t)
    /\ LET a == [op |-> "get_medias_series"]
           ids == Limited(OrderedByTitle(1..Len(medias)), MediasLimit)
       IN  IF ~Usable
           THEN Unusable(t, a)
           ELSE /\ Access
                /\ args' = [args EXCEPT ![t] = a]
                /\ IF ids = <<>>
                   THEN /\ Return(t, Ok(<<>>))
                        /\ UNCHANGED local
                   ELSE /\ pc' = [pc EXCEPT ![t] = "gms_subtitles"]
                        /\ local' = [local EXCEPT ![t] =
                             [ i |-> 1,
                               rows |-> [j \in 1..Len(ids) |->
                                            [i |-> ids[j], row |-> medias[ids[j]]]],
                               out |-> <<>> ]]
                        /\ result' = [result EXCEPT ![t] = Pending]
                /\ UNCHANGED <<store, now, threads, fetched>>

\* get_medias_series: med.subtitles of the next media, one SELECT each
gms_subtitles(t) ==
    /\ t \in threads /\ pc[t] = "gms_subtitles"
    /\ LET i == local[t].i
           out == Append(local[t].out, MediaRecord(local[t].rows[i]))
       IN  IF i = Len(local[t].rows)
           THEN /\ Return(t, Ok(out))
                /\ local' = [local EXCEPT ![t] = NoLocal]
           ELSE /\ local' = [local EXCEPT ![t].i = i + 1, ![t].out = out]
                /\ UNCHANGED <<pc, result>>
    /\ UNCHANGED <<handle, store, now, threads, fetched, args>>

\* media_exists: one SELECT
media_exists(t, f) ==
    /\ Idle(t)
    /\  LET a == [op |-> "media_exists", media_filename |-> f]
        IN  IF ~Usable
            THEN Unusable(t, a)
            ELSE /\ Access
                 /\ args' = [args EXCEPT ![t] = a]
                 /\ Return(t, Ok(\E k \in 1..Len(medias) : medias[k].media_filename = f))
                 /\ UNCHANGED <<local, store, now, threads, fetched>>

\* ---------------------------------------------------------------- Events
\* insert_event: Events.create(type=, message=), timestamp defaulted to now
insert_event(t, ty, msg) ==
    /\ Idle(t)
    /\  LET a == [op |-> "insert_event", type |-> ty, message |-> msg]
        IN  IF ~Usable
            THEN Unusable(t, a)
            ELSE /\ Len(events) < MaxEvents
                 /\ Access
                 /\ events' = Append(events,
                        [timestamp |-> now, type |-> ty, message |-> msg])
                 /\ args' = [args EXCEPT ![t] = a]
                 /\ Return(t, Ok(NULL))
                 /\ UNCHANGED <<local, medias, subtitles, now, threads, fetched>>

\* mutant: ORDER BY timestamp, ascending
RecentIdsAscending(limit) ==
    LET n == IF Len(events) < limit THEN Len(events) ELSE limit
    IN  { r \in [1..n -> 1..Len(events)] :
            /\ \A i, j \in 1..n : i < j =>
                  /\ r[i] # r[j]
                  /\ events[r[i]].timestamp <= events[r[j]].timestamp
            /\ \A k \in 1..Len(events) :
                  (\A i \in 1..n : r[i] # k) =>
                      \A i \in 1..n : events[r[i]].timestamp <= events[k].timestamp }

\* the results ORDER BY timestamp DESC LIMIT limit allows: rows of equal
\* timestamp come in an order the statement leaves open
RecentIds(limit) ==
    LET n == IF Len(events) < limit THEN Len(events) ELSE limit
    IN  { r \in [1..n -> 1..Len(events)] :
            /\ \A i, j \in 1..n : i < j =>
                  /\ r[i] # r[j]
                  /\ events[r[i]].timestamp >= events[r[j]].timestamp
            /\ \A k \in 1..Len(events) :
                  (\A i \in 1..n : r[i] # k) =>
                      \A i \in 1..n : events[r[i]].timestamp >= events[k].timestamp }

\* one record of get_recent_events
EventRecord(e) ==
    [ timestamp |-> strftime(e.timestamp), type |-> e.type, message |-> e.message ]

\* get_recent_events: one SELECT
get_recent_events(t, limit) ==
    /\ Idle(t)
    /\  LET a == [op |-> "get_recent_events", limit |-> limit]
        IN  IF ~Usable
            THEN Unusable(t, a)
            ELSE /\ Access
                 /\ args' = [args EXCEPT ![t] = a]
                 /\ \E r \in RecentIds(limit) :
                        Return(t, Ok([i \in 1..Len(r) |-> EventRecord(events[r[i]])]))
                 /\ UNCHANGED <<local, store, now, threads, fetched>>

\* datetime.datetime.now is the local wall clock: it moves on, and it moves
\* back when the system clock is set or daylight saving time ends
ClockChange ==
    /\ now' \in 0..MaxTime
    /\ now' # now
    /\ UNCHANGED <<handle, store, threads, frames, fetched>>

\* ---------------------------------------------------------------- lifecycle
\* init(sqlite_db_path, reset_db): the path is recorded, then the file unlinked
init(t, p, reset_db) ==
    /\ Idle(t)
    /\  /\ sqlite_db_path' = p
        /\ args' = [args EXCEPT ![t] = [op |-> "init", sqlite_db_path |-> p,
                                         reset_db |-> reset_db]]
        /\ IF reset_db /\ p \notin files
           THEN /\ Return(t, Raised("FileNotFoundError"))
                /\ UNCHANGED files
           ELSE /\ Return(t, Ok(NULL))
                /\ files' = IF reset_db THEN files \ {p} ELSE files
        /\ UNCHANGED <<database, tables, store, now, threads, fetched, local>>

\* create_tables: CREATE TABLE IF NOT EXISTS, three times
create_tables(t) ==
    /\ Idle(t)
    /\ database' = Database
    /\ files' = FilesAfterAccess
    /\ args' = [args EXCEPT ![t] = [op |-> "create_tables"]]
    /\ IF Database.path = "None"
       THEN /\ Return(t, Raised("OperationalError"))
            /\ UNCHANGED tables
       ELSE /\ Return(t, Ok(NULL))
            /\ tables' = TRUE
    /\ UNCHANGED <<sqlite_db_path, store, now, threads, fetched, local>>

\* ---------------------------------------------------------------- specifications
Blank ==
    /\ pc = [t \in AllThreads |-> "idle"]
    /\ args = [t \in AllThreads |-> NoArgs]
    /\ local = [t \in AllThreads |-> NoLocal]
    /\ result = [t \in AllThreads |-> [status |-> "none"]]
    /\ events = <<>>
    /\ medias = <<>>
    /\ subtitles = <<>>
    /\ now = 0
    /\ fetched = [uid \in UIDs |-> {}]

\* DopplerrDb(): nothing recorded, nothing opened
Init ==
    /\ Blank
    /\ sqlite_db_path = "None"
    /\ database = NoDatabase
    /\ files \in SUBSET Paths
    /\ tables = FALSE
    /\ threads = {"t1"}

\* after init(Path("a.db")) and create_tables()
Ready ==
    /\ Blank
    /\ sqlite_db_path = "a.db"
    /\ database = [open |-> TRUE, path |-> "a.db"]
    /\ files = {"a.db"}
    /\ tables = TRUE

InitThreads == Ready /\ threads = {"t1", "t2"}
InitSeq == Ready /\ threads = {"t1"}

\* the calls of one caller with every input
Calls(t) ==
    \/ \E key \in MediaKeys, d \in Descs :
            update_series_media(t, key.uid, key.media_filename, d)
    \/ \E uid \in UIDs, langs \in LangSeqs, dirty \in BOOLEAN :
            update_fetched_series_subtitles(t, uid, langs, dirty)
    \/ get_medias_series(t)
    \/ \E f \in Filenames \ {""} : media_exists(t, f)

\* the statements of the operations in flight
Statements(t) ==
    \/ usm_create(t)
    \/ usm_save(t)
    \/ ufs_get(t)
    \/ ufs_create(t)
    \/ ufs_select(t)
    \/ ufs_save(t)
    \/ gms_subtitles(t)

NextSeq == \E t \in AllThreads : Calls(t) \/ Statements(t)

\* concurrent callers work on one episode and one file
TheUid == Uid(2)
TheFile == "ep2.mkv"

Next ==
    \E t \in AllThreads :
        \/ \E d \in Descs : update_series_media(t, TheUid, TheFile, d)
        \/ \E langs \in {<<"fr", "fr">>, <<"en", "fr">>} :
                update_fetched_series_subtitles(t, TheUid, langs, FALSE)
        \/ usm_create(t)
        \/ usm_save(t)
        \/ ufs_get(t)
        \/ ufs_create(t)
        \/ ufs_select(t)
        \/ ufs_save(t)

NextReaders ==
    \E t \in AllThreads :
        \/ \E d \in Descs : update_series_media(t, TheUid, TheFile, d)
        \/ usm_create(t)
        \/ usm_save(t)
        \/ get_medias_series(t)
        \/ gms_subtitles(t)
        \/ media_exists(t, TheFile)

NextEvents ==
    \/ \E t \in AllThreads, n \in Notices : insert_event(t, n.type, n.message)
    \/ \E t \in AllThreads, limit \in 1..MaxLimit : get_recent_events(t, limit)
    \/ ClockChange

NextLifecycle ==
    \E t \in AllThreads :
        \/ \E p \in Paths, reset_db \in BOOLEAN : init(t, p, reset_db)
        \/ create_tables(t)
        \/ \E n \in Notices : insert_event(t, n.type, n.message)
        \/ \E limit \in 1..MaxLimit : get_recent_events(t, limit)

\* writers on several threads
Spec == InitThreads /\ [][Next]_vars
\* writers and readers on several threads
SpecReaders == InitThreads /\ [][NextReaders]_vars
\* one caller: each operation ends before the next begins
SpecSeq == InitSeq /\ [][NextSeq]_vars
\* one caller, the event log and the clock
SpecEvents == InitSeq /\ [][NextEvents]_vars
\* one caller, from construction
SpecLifecycle == Init /\ [][NextLifecycle]_vars

\* ---------------------------------------------------------------- claims
\* thread t is back from a successful call of op
Returned(t, op) ==
    t \in threads /\ pc[t] = "idle" /\ args[t].op = op /\ result[t].status = "ok"

SameKey(m, n) ==
    /\ m.tv_db_id = n.tv_db_id
    /\ m.season_number = n.season_number
    /\ m.episode_number = n.episode_number
    /\ m.media_filename = n.media_filename

\* s lists the languages of S once each, in lexicographic order
IsSortedUnion(s, S) ==
    /\ Len(s) = Cardinality(S)
    /\ { s[i] : i \in 1..Len(s) } = S
    /\ \A i, j \in 1..Len(s) : i < j => LangRank(s[i]) < LangRank(s[j])

\* C1: with several callers, at most one operation is in flight at any time,
\* and no get_medias_series answer holds a row that update_series_media has
\* created but not yet saved (its descriptive fields still NULL).
C1_OperationsNeverInterleave ==
    /\ Cardinality({ t \in threads : pc[t] # "idle" }) <= 1
    /\ \A t \in threads :
          Returned(t, "get_medias_series") =>
              \A i \in 1..Len(result[t].value) :
                  result[t].value[i].series_title # NULL

\* C2: in every reachable state, under any interleaving of the callers, at
\* most one SeriesMedias row exists per (tv_db_id, season_number,
\* episode_number, media_filename).
C2_OneRowPerKey ==
    \A i, j \in 1..Len(medias) : SameKey(medias[i], medias[j]) => i = j

\* C3: in every reachable state, under any interleaving of the callers, no two
\* SeriesSubtitles rows have the same (series_media, language).
C3_OneSubtitlePerMediaLanguage ==
    \A i, j \in 1..Len(subtitles) :
        /\ subtitles[i].series_media = subtitles[j].series_media
        /\ subtitles[i].language = subtitles[j].language
        => i = j

\* C4: once update_series_media has returned, exactly one row has the key of
\* the call and its series_title, episode_title, quality, video_languages and
\* dirty are the arguments of that call, whatever the row held before.
C4_LastWriteWins ==
    \A t \in threads :
        Returned(t, "update_series_media") =>
            \E k \in 1..Len(medias) :
                /\ KeyIds(args[t]) = {k}
                /\ medias[k].series_title = args[t].series_title
                /\ medias[k].episode_title = args[t].episode_title
                /\ medias[k].quality = args[t].quality
                /\ medias[k].video_languages = args[t].video_languages
                /\ medias[k].dirty = args[t].dirty

\* a call on a row that already had subtitles fetched (so it existed, and
\* update_fetched_series_subtitles had set its dirty flag) has returned
C4_Witness ==
    \E t \in threads :
        /\ Returned(t, "update_series_media")
        /\ args[t].dirty
        /\ args[t].quality = "720p"
        /\ \E k \in KeyIds(args[t]) :
              \E n \in 1..Len(subtitles) : subtitles[n].series_media = k

\* thread t makes a call of update_series_media with an empty filename
RejectedCall(t) ==
    /\ pc[t] = "idle"
    /\ pc'[t] = "idle"
    /\ args'[t].op = "update_series_media"
    /\ args'[t].media_filename = ""
    /\ <<args[t], result[t]>> # <<args'[t], result'[t]>>

\* C5: update_series_media with an empty media_filename raises before any
\* statement: the three tables are unchanged by the call, and no SeriesMedias
\* row ever has an empty filename.
C5_EmptyFilenameRejected ==
    /\ [](\A k \in 1..Len(medias) : medias[k].media_filename # "")
    /\ [][\A t \in threads :
             RejectedCall(t) =>
                 /\ result'[t].status = "AssertionError"
                 /\ UNCHANGED store]_vars

C5_Witness ==
    \E t \in threads :
        /\ pc[t] = "idle"
        /\ args[t].op = "update_series_media"
        /\ args[t].media_filename = ""
        /\ result[t].status = "AssertionError"
        /\ Len(medias) > 0

\* thread t answers get_recent_events right after its insert_event
InsertThenGet(t) ==
    /\ Returned(t, "insert_event")
    /\ args'[t].op = "get_recent_events"
    /\ result'[t].status = "ok"

\* C6 as stated: get_recent_events(n), n >= 1, called right after
\* insert_event(type, message) returns that event first, type and message
\* unchanged; every answer has at most `limit` events, in non-increasing
\* timestamp order.
C6_InsertedEventFirst ==
    /\ [][\A t \in threads :
             InsertThenGet(t) =>
                 /\ Len(result'[t].value) >= 1
                 /\ result'[t].value[1].type = args[t].type
                 /\ result'[t].value[1].message = args[t].message]_vars
    /\ [](\A t \in threads :
             Returned(t, "get_recent_events") =>
                 /\ Len(result[t].value) <= args[t].limit
                 /\ \A i, j \in 1..Len(result[t].value) :
                       i < j => result[t].value[i].timestamp
                                    >= result[t].value[j].timestamp)

\* the event inserted last is later than every other stored event
LastIsLatest ==
    \A k \in 1..(Len(events) - 1) : events[k].timestamp < events[Len(events)].timestamp

\* C6, amended: get_recent_events(n), n >= 1, called right after insert_event
\* returns that event first, type and message unchanged, when its timestamp is
\* later than that of every other stored event; every answer has min(limit,
\* number of events) events in non-increasing timestamp order, and fewer than
\* that many stored events are later than the last one returned.
C6_LatestTimestampFirst ==
    /\ [][\A t \in threads :
             (InsertThenGet(t) /\ LastIsLatest) =>
                 /\ Len(result'[t].value) >= 1
                 /\ result'[t].value[1] =
                       [ timestamp |-> strftime(events[Len(events)].timestamp),
                         type |-> args[t].type,
                         message |-> args[t].message ]]_vars
    /\ [](\A t \in threads :
             Returned(t, "get_recent_events") =>
                 LET v == result[t].value
                     n == Len(v)
                 IN  /\ n <= args[t].limit
                     /\ n < args[t].limit => n = Len(events)
                     /\ \A i, j \in 1..n : i < j => v[i].timestamp >= v[j].timestamp
                     /\ n > 0 =>
                           Cardinality({ k \in 1..Len(events) :
                               strftime(events[k].timestamp) > v[n].timestamp }) < n)

\* "grab" then, later, "download" were inserted, and get_recent_events(1)
\* answered the "download" event alone
C6_Witness ==
    \E t \in threads :
        /\ Returned(t, "get_recent_events")
        /\ args[t].limit = 1
        /\ Len(events) = 2
        /\ events[1].type = "grab"
        /\ events[2].type = "download"
        /\ events[1].timestamp < events[2].timestamp
        /\ result[t].value = <<EventRecord(events[2])>>

\* C7: once update_fetched_series_subtitles(uid, langs, dirty) has returned,
\* every row of the episode has dirty equal to the argument, and when the
\* episode has exactly one row, get_medias_series reports for it the languages
\* of this and the earlier completed calls, once each, sorted.
C7_FetchedSubtitles ==
    \A t \in threads :
        Returned(t, "update_fetched_series_subtitles") =>
            LET uid == args[t].series_episode_uid
            IN  /\ \A k \in UidIds(uid) : medias[k].dirty = args[t].dirty
                /\ \A k \in UidIds(uid) :
                      UidIds(uid) = {k} =>
                          IsSortedUnion(
                              MediaRecord([i |-> k, row |-> medias[k]]).subtitle_languages,
                              fetched[uid])

\* the scenario of the specification, after an earlier call stored "fr" first
C7_Witness ==
    \E t \in threads :
        /\ Returned(t, "update_fetched_series_subtitles")
        /\ args[t].subtitles_languages = <<"en", "fr">>
        /\ args[t].dirty
        /\ \E k \in 1..Len(medias) :
              /\ UidIds(args[t].series_episode_uid) = {k}
              /\ medias[k].media_filename = "ep2.mkv"
              /\ medias[k].dirty
              /\ LanguagesOf(k, Len(subtitles)) = <<"fr", "en">>
              /\ MediaRecord([i |-> k, row |-> medias[k]]).subtitle_languages
                    = <<"en", "fr">>

\* C8: a save of update_fetched_series_subtitles changes nothing but the dirty
\* flag of the row it saves: every other column keeps the value the table
\* holds, also when update_series_media wrote it after the row was read, and
\* every other row is unchanged.
C8_OnlyDirtyRewritten ==
    [][\A t \in threads :
          (pc[t] = "ufs_save" /\ local'[t] # local[t]) =>
              \A k \in 1..Len(medias) :
                  medias'[k] =
                      IF k = Head(local[t].rows).i
                      THEN [medias[k] EXCEPT !.dirty = args[t].dirty]
                      ELSE medias[k]]_vars

\* C9: every SeriesSubtitles row references an existing SeriesMedias row; a
\* row update_fetched_series_subtitles inserts references a row of the call's
\* episode, and nothing is inserted when the episode has no row.
C9_SubtitleParentExists ==
    /\ [](\A n \in 1..Len(subtitles) : subtitles[n].series_media \in 1..Len(medias))
    /\ [][subtitles' # subtitles =>
             \E t \in threads :
                 /\ pc[t] = "ufs_create"
                 /\ UidIds(args[t].series_episode_uid) # {}
                 /\ \E k \in UidIds(args[t].series_episode_uid) :
                       subtitles' = Append(subtitles,
                           [ added_timestamp |-> now,
                             series_media |-> k,
                             language |-> args[t].subtitles_languages[local[t].i] ])]_vars

\* an episode with two files has a subtitle, and a call for an episode without
\* any row has raised
C9_Witness ==
    /\ \E i, j \in 1..Len(medias) :
          /\ i # j
          /\ medias[i].episode_number = medias[j].episode_number
          /\ medias[i].media_filename # medias[j].media_filename
          /\ \E n \in 1..Len(subtitles) : subtitles[n].series_media \in {i, j}
    /\ \E t \in threads :
          /\ args[t].op = "update_fetched_series_subtitles"
          /\ result[t].status = "IntegrityError"

\* C10 as stated: the handle always targets the path of the most recent init,
\* and the file of an opened handle is never removed.
C10_HandleFollowsInit ==
    database.open =>
        /\ database.path = sqlite_db_path
        /\ database.path # "None" => database.path \in files

\* thread t makes a successful init with reset_db
ResetCall(t) ==
    /\ pc[t] = "idle"
    /\ args'[t].op = "init"
    /\ args'[t].reset_db
    /\ result'[t].status = "ok"
    /\ <<args[t], result[t], sqlite_db_path, files>>
          # <<args'[t], result'[t], sqlite_db_path', files'>>

\* C10, amended: the handle is built once and never replaced; it is opened on
\* the path recorded by the last init before the first access; an init with
\* reset before the first access leaves no file at the path and no handle.
C10_HandleOpenedOnce ==
    [][/\ database.open => database' = database
       /\ (~database.open /\ database'.open) =>
             /\ database'.path = sqlite_db_path
             /\ database'.path # "None" => database'.path \in files'
       /\ \A t \in threads :
             (ResetCall(t) /\ ~database.open) =>
                 /\ ~database'.open
                 /\ sqlite_db_path' = args'[t].sqlite_db_path
                 /\ sqlite_db_path' \notin files']_vars

\* init was called again after the handle was opened: the handle stays on the
\* first path
C10_Witness ==
    /\ database.open
    /\ database.path = "a.db"
    /\ sqlite_db_path = "b.db"
    /\ tables

====
